---- MODULE Spec2Model ----
(***************************************************************************)
(* Model of the process supervisor of test_server_sdk (TestServer in       *)
(* test_server_wrapper.py): one controlling thread calling start()/stop()  *)
(* or using the handle as a context manager, the spawned child processes,  *)
(* and the two output-reader threads started for every child.              *)
(***************************************************************************)
EXTENDS Integers, Sequences, FiniteSets, TLC

\* ---------------------------------------------------------------- bounds
MaxStarts == 2        \* start() calls made on a handle that is reused
MaxEndpoints == 2     \* entries of the config's `endpoints` list
MaxReuseEndpoints == 1 \* the same, for a handle that is reused
PipeCapacity == 1     \* lines a pipe holds before the child blocks
DigestLen == 2        \* hex digits of a digest

\* ------------------------------------------------------ program constants
Retries == 5          \* _health_check(retries=5)
DelayUnits == 1       \* _health_check(delay_sec=0.1), in tenths of a second

Streams == {"STDOUT", "STDERR"}

\* ------------------------------------------------------------ config file
\* An entry of config['endpoints']: a mapping with some of the two keys the
\* supervisor reads, or a scalar (not a mapping).
Entries ==
    [isMap : {TRUE}, keys : SUBSET {"health", "source_port"}]
        \cup {[isMap |-> FALSE, keys |-> {}]}

EndpointLists == UNION {[1..n -> Entries] : n \in 0..MaxEndpoints}

\* What open() + yaml.safe_load() give for the file at config_path:
\*   file "missing"   open() raises FileNotFoundError
\*   file "malformed" yaml.safe_load() raises
\*   file "parsed"    doc "None" (empty document) or a mapping, with or
\*                    without the key `endpoints`
Configs ==
    {[file |-> "missing", doc |-> "None", hasEndpoints |-> FALSE, endpoints |-> <<>>],
     [file |-> "malformed", doc |-> "None", hasEndpoints |-> FALSE, endpoints |-> <<>>],
     [file |-> "parsed", doc |-> "None", hasEndpoints |-> FALSE, endpoints |-> <<>>],
     [file |-> "parsed", doc |-> "mapping", hasEndpoints |-> FALSE, endpoints |-> <<>>]}
    \cup {[file |-> "parsed", doc |-> "mapping", hasEndpoints |-> TRUE, endpoints |-> l] :
            l \in EndpointLists}

\* What requests.get(url, timeout=1) and raise_for_status() come to:
\*   "ok"    a response that is no 4xx/5xx
\*   "fail"  a RequestException (no connection, timeout, HTTPError)
\*   "error" any other exception
ProbeOutcomes == {"ok", "fail", "error"}

\* 'health' in endpoint and 'source_port' in endpoint
Qualifies(endpoint) ==
    "health" \in endpoint.keys /\ "source_port" \in endpoint.keys

\* backoff_delay = delay_sec * (2 ** i)
RECURSIVE Pow2(_)
Pow2(i) == IF i = 0 THEN 1 ELSE 2 * Pow2(i - 1)

\* a backoff that grows by delay_sec per attempt instead of doubling
backoff_delay_linear(i) == DelayUnits * (i + 1)

backoff_delay(i) == DelayUnits * Pow2(i)

VARIABLES
    binaryExists,   \* binary_path.exists() in _get_binary_path
    config,         \* content of the file at self.config_path
    process,        \* self.process: 0 is None, else the id of a child
    stdout_thread,  \* self._stdout_thread: 0 is None, else the child it reads
    stderr_thread,  \* self._stderr_thread
    procs,          \* the children spawned so far, by id
    pc,             \* position of the controlling thread
    epIdx,          \* index of the endpoint the loop of start() is at
    attempt,        \* i of the loop of _health_check
    stopFrom,       \* who called the running stop(): "caller" or "start"
    pendingErr,     \* the exception start() re-raises when its stop() returns
    scope,          \* how the caller uses the handle (with statement or not)
    startBudget,    \* start() calls the caller makes on this handle
    starts,         \* start() calls made so far
    lastCall,       \* the last call that came back to the caller
    raised,         \* the exception it raised, "none" if it returned
    spawned,        \* the child the current/last start() spawned, 0 if none
    stopRan,        \* a stop() has returned since the last start() was called
    stopPath,       \* what the last stop() did: "none", "noop", "full"
    nProbes,        \* probes issued by the running/last _health_check call
    passed,         \* endpoint indexes that answered a probe successfully
    sleeps          \* the sleeps of the running/last _health_check call

\* The provisioner (install.py), run once by main_downloader_function.
VARIABLES
    sysPlatform,    \* sys.platform, as the name and what follows it
    machine,        \* platform.machine()
    expected,       \* the manifest entry for (version, archive_name);
                    \* <<>> when there is none (None) or it is empty
    archiveExists,  \* archive_path.exists()
    archiveDigest,  \* SHA-256 hex digest of what was downloaded, <<>> if
                    \* the download did not complete
    execBit,        \* the binary has the owner-execute bit
    details,        \* what get_platform_details returned
    ipc,            \* position of the provisioner
    pendingExc,     \* exception on its way through a handler
    iraised,        \* the exception install_binary raised, "none" if none
    failedAt,       \* the step that raised it
    verified,       \* outcome of the checksum verification
    extracted,      \* extractall() was called
    smoke,          \* outcome of the smoke test
    exitCode        \* exit code of the entry point, -1 while it runs

installer ==
    <<sysPlatform, machine, expected, archiveExists, archiveDigest, execBit,
      details, ipc, pendingExc, iraised, failedAt, verified, extracted, smoke,
      exitCode>>

handle == <<process, stdout_thread, stderr_thread>>
control == <<pc, epIdx, attempt, stopFrom, pendingErr>>
caller == <<scope, starts, lastCall, raised>>
log == <<nProbes, passed, sleeps>>
history == <<spawned, stopRan, stopPath, log>>
env == <<binaryExists, config, startBudget, installer>>
vars == <<env, handle, procs, control, caller, history>>

Alive(c) == c # 0 /\ procs[c].alive

\* self.process.poll() is None
Running == process # 0 /\ procs[process].alive

\* ---------------------------------------------------------- install.py
\* sys.platform values, as <<name, rest>>: "linux2" is <<"linux", "2">>
SysPlatforms ==
    {<<"darwin">>, <<"linux">>, <<"linux", "2">>, <<"win32">>, <<"cygwin">>,
     <<"freebsd", "13">>}

Machines == {"x86_64", "AMD64", "arm64", "aarch64", "i386", "ARM64"}

\* str.startswith
StartsWith(s, prefix) ==
    Len(s) >= Len(prefix) /\ SubSeq(s, 1, Len(prefix)) = prefix

NoDetails ==
    [go_os |-> "", go_arch |-> "", archive_extension |-> "", binary_name |-> ""]

\* get_platform_details with ".tar.gz" for every OS
get_platform_details_tar_only(os_platform, arch) ==
    LET go_os == IF StartsWith(os_platform, <<"darwin">>) THEN "Darwin"
                 ELSE IF StartsWith(os_platform, <<"linux">>) THEN "Linux"
                 ELSE IF StartsWith(os_platform, <<"win32">>) THEN "Windows"
                 ELSE ""
        go_arch == IF arch \in {"x86_64", "AMD64"} THEN "x86_64"
                   ELSE IF arch \in {"arm64", "aarch64"} THEN "arm64"
                   ELSE ""
    IN  IF go_os = "" \/ go_arch = "" THEN NoDetails
        ELSE [go_os |-> go_os,
              go_arch |-> go_arch,
              archive_extension |-> ".tar.gz",
              binary_name |-> IF go_os = "Windows" THEN "test-server.exe"
                              ELSE "test-server"]

\* get_platform_details: NoDetails stands for the OSError it raises
get_platform_details(os_platform, arch) ==
    LET go_os == IF StartsWith(os_platform, <<"darwin">>) THEN "Darwin"
                 ELSE IF StartsWith(os_platform, <<"linux">>) THEN "Linux"
                 ELSE IF StartsWith(os_platform, <<"win32">>) THEN "Windows"
                 ELSE ""
        archive_extension == IF go_os = "Windows" THEN ".zip" ELSE ".tar.gz"
        go_arch == IF arch \in {"x86_64", "AMD64"} THEN "x86_64"
                   ELSE IF arch \in {"arm64", "aarch64"} THEN "arm64"
                   ELSE ""
    IN  IF go_os = "" \/ go_arch = "" THEN NoDetails
        ELSE [go_os |-> go_os,
              go_arch |-> go_arch,
              archive_extension |-> archive_extension,
              binary_name |-> IF go_os = "Windows" THEN "test-server.exe"
                              ELSE "test-server"]

\* Hex digests: hashlib's hexdigest() is lower case, a manifest entry may
\* hold upper-case letters as well.
LowerHex == {"0", "a"}
AnyHex == LowerHex \cup {"A"}
ComputedDigests == [1..DigestLen -> LowerHex]
ManifestEntries == {<<>>} \cup [1..DigestLen -> AnyHex]

\* str.lower() on a hex string
Lower(s) == [i \in 1..Len(s) |-> IF s[i] = "A" THEN "a" ELSE s[i]]

\* `actual_checksum != expected_checksum`, compared without regard to case
checksum_matches_nocase(actual, want) == Lower(actual) = Lower(want)

\* not (actual_checksum != expected_checksum)
checksum_matches(actual, want) == actual = want

\* Before main_downloader_function runs, on one of the given hosts.
InstallerIdle(platforms, machines, entries) ==
    /\ sysPlatform \in platforms
    /\ machine \in machines
    /\ expected \in entries
    /\ archiveExists = FALSE
    /\ archiveDigest = <<>>
    /\ execBit = FALSE
    /\ details = NoDetails
    /\ ipc = "idle"
    /\ pendingExc = "none"
    /\ iraised = "none"
    /\ failedAt = "none"
    /\ verified = "none"
    /\ extracted = FALSE
    /\ smoke = "none"
    /\ exitCode = -1

NewProc ==
    [alive |-> TRUE, term |-> 0, kill |-> 0, expired |-> FALSE,
     pipe |-> [s \in Streams |-> 0],
     thread |-> [s \in Streams |-> "new"]]

\* TestServer.__init__, for a caller that makes at most `budget` start()
\* calls on the handle and a config file out of `configs`
InitWith(configs, budget) ==
    /\ binaryExists \in BOOLEAN
    /\ config \in configs
    /\ startBudget = budget
    /\ process = 0
    /\ stdout_thread = 0
    /\ stderr_thread = 0
    /\ procs = <<>>
    /\ pc = "idle"
    /\ epIdx = 0
    /\ attempt = 0
    /\ stopFrom = "caller"
    /\ pendingErr = "none"
    /\ scope \in {"direct", "with"}
    /\ starts = 0
    /\ lastCall = "none"
    /\ raised = "none"
    /\ spawned = 0
    /\ stopRan = FALSE
    /\ stopPath = "none"
    /\ nProbes = 0
    /\ passed = {}
    /\ sleeps = <<>>

\* ------------------------------------------------------------ environment
\* The child exits: by itself, or because of a signal it was sent.
child_exit(c) ==
    /\ c \in 1..Len(procs)
    /\ procs[c].alive
    /\ procs' = [procs EXCEPT ![c].alive = FALSE]
    /\ UNCHANGED <<env, handle, control, caller, history>>

\* The child writes one line to one of its output pipes.
child_write(c, s) ==
    /\ c \in 1..Len(procs)
    /\ procs[c].alive
    /\ procs[c].pipe[s] < PipeCapacity
    /\ procs' = [procs EXCEPT ![c].pipe[s] = @ + 1]
    /\ UNCHANGED <<env, handle, control, caller, history>>

\* ---------------------------------------------------------- _read_stream
\* while self.process and self.process.poll() is None:
read_stream_poll(c, s) ==
    /\ c \in 1..Len(procs)
    /\ procs[c].thread[s] = "poll"
    /\ procs' = [procs EXCEPT ![c].thread[s] =
                    IF Running THEN "readline" ELSE "done"]
    /\ UNCHANGED <<env, handle, control, caller, history>>

\* line = stream.readline(); if not line: break; print(...)
read_stream_readline(c, s) ==
    /\ c \in 1..Len(procs)
    /\ procs[c].thread[s] = "readline"
    /\ IF procs[c].pipe[s] > 0
       THEN procs' = [procs EXCEPT ![c].pipe[s] = @ - 1,
                                   ![c].thread[s] = "poll"]
       ELSE /\ ~procs[c].alive          \* end of file; else readline blocks
            /\ procs' = [procs EXCEPT ![c].thread[s] = "done"]
    /\ UNCHANGED <<env, handle, control, caller, history>>

\* ------------------------------------------------- return to the caller
\* Where a with statement is after `call` came back with exception `err`
\* ("none": it returned): __enter__ that raises leaves the statement without
\* running __exit__; __exit__ ends it.
AfterScope(call, err, sc) ==
    IF sc = "entering" THEN (IF err = "none" THEN "body" ELSE "left")
    ELSE IF sc \in {"exiting", "exiting_raise"} THEN "left"
    ELSE sc

\* The call comes back: its locals (the loop variables) are gone.
ReturnToCaller(call, err, sc) ==
    /\ pc' = "idle"
    /\ epIdx' = 0
    /\ attempt' = 0
    /\ stopFrom' = "caller"
    /\ pendingErr' = "none"
    /\ lastCall' = call
    /\ raised' = err
    /\ scope' = AfterScope(call, err, sc)

\* What the caller sees when a stop() called by `from` returns: start()
\* re-raises the exception it caught, a direct stop() returns None.
StopReturns(from, err, sc) ==
    IF from = "start"
    THEN ReturnToCaller("start", err, sc)
    ELSE ReturnToCaller("stop", "none", sc)

\* The log of probes and sleeps starts anew with every call of the caller.
ClearLog ==
    /\ nProbes' = 0
    /\ passed' = {}
    /\ sleeps' = <<>>

\* ------------------------------------------------------------------ stop
\* stop_enter with the guard `if not self.process: return`, the poll() left
\* out
stop_enter_no_poll(from, err, sc) ==
    IF process = 0
    THEN /\ StopReturns(from, err, sc)
         /\ stopRan' = TRUE
         /\ stopPath' = "noop"
    ELSE /\ pc' = "terminate"
         /\ epIdx' = 0
         /\ attempt' = 0
         /\ stopFrom' = from
         /\ pendingErr' = err
         /\ scope' = sc
         /\ UNCHANGED <<lastCall, raised, stopRan, stopPath>>

\* Entry of stop(): `if not self.process or self.process.poll() is not
\* None: return`, else go on to terminate().  Part of the action that calls
\* stop(); that action says what happens to the handle, the children and
\* the log.
stop_enter(from, err, sc) ==
    IF ~Running
    THEN /\ StopReturns(from, err, sc)
         /\ stopRan' = TRUE
         /\ stopPath' = "noop"
    ELSE /\ pc' = "terminate"
         /\ epIdx' = 0
         /\ attempt' = 0
         /\ stopFrom' = from
         /\ pendingErr' = err
         /\ scope' = sc
         /\ UNCHANGED <<lastCall, raised, stopRan, stopPath>>

\* stop() called by the caller (not by start() or __exit__)
stop ==
    /\ pc = "idle"
    /\ scope \in {"direct", "body"}
    /\ stop_enter("caller", "none", scope)
    /\ ClearLog
    /\ UNCHANGED <<env, handle, procs, starts, spawned>>

\* __exit__ that stops the server only when the body raised nothing
exit_only_clean(bodyRaised) ==
    /\ pc = "idle"
    /\ scope = "body"
    /\ ClearLog
    /\ IF bodyRaised
       THEN /\ scope' = "left"
            /\ UNCHANGED <<control, lastCall, raised, stopRan, stopPath>>
       ELSE stop_enter("caller", "none", "exiting")
    /\ UNCHANGED <<env, handle, procs, starts, spawned>>

\* the body of the with statement ends, normally or by an exception:
\* __exit__ calls self.stop()
exit(bodyRaised) ==
    /\ pc = "idle"
    /\ scope = "body"
    /\ stop_enter("caller", "none",
                  IF bodyRaised THEN "exiting_raise" ELSE "exiting")
    /\ ClearLog
    /\ UNCHANGED <<env, handle, procs, starts, spawned>>

\* self.process.terminate()
stop_terminate ==
    /\ pc = "terminate"
    /\ procs' = [procs EXCEPT ![process].term = @ + 1]
    /\ pc' = "wait"
    /\ UNCHANGED <<env, handle, epIdx, attempt, stopFrom, pendingErr,
                   caller, history>>

\* stop_wait that does not wait: kill() follows terminate() at once
stop_wait_no_timeout ==
    /\ pc = "wait"
    /\ pc' = "kill"
    /\ UNCHANGED <<env, handle, procs, epIdx, attempt, stopFrom, pendingErr,
                   caller, history>>

\* self.process.wait(timeout=self.teardown_timeout): returns when the child
\* has exited; raises TimeoutExpired when the timeout passes with the child
\* still running
stop_wait ==
    /\ pc = "wait"
    /\ IF procs[process].alive
       THEN /\ procs' = [procs EXCEPT ![process].expired = TRUE]
            /\ pc' = "kill"
       ELSE /\ pc' = "join_stdout"
            /\ UNCHANGED procs
    /\ UNCHANGED <<env, handle, epIdx, attempt, stopFrom, pendingErr,
                   caller, history>>

\* except subprocess.TimeoutExpired: self.process.kill()
stop_kill ==
    /\ pc = "kill"
    /\ procs' = [procs EXCEPT ![process].kill = @ + 1]
    /\ pc' = "wait_killed"
    /\ UNCHANGED <<env, handle, epIdx, attempt, stopFrom, pendingErr,
                   caller, history>>

\* self.process.wait()
stop_wait_killed ==
    /\ pc = "wait_killed"
    /\ ~procs[process].alive
    /\ pc' = "join_stdout"
    /\ UNCHANGED <<env, handle, procs, epIdx, attempt, stopFrom, pendingErr,
                   caller, history>>

\* if self._stdout_thread: self._stdout_thread.join()
stop_join_stdout ==
    /\ pc = "join_stdout"
    /\ stdout_thread # 0 => procs[stdout_thread].thread["STDOUT"] = "done"
    /\ pc' = "join_stderr"
    /\ UNCHANGED <<env, handle, procs, epIdx, attempt, stopFrom, pendingErr,
                   caller, history>>

\* stop_join_stderr that also forgets the process (self.process = None)
stop_join_stderr_forget ==
    /\ pc = "join_stderr"
    /\ stderr_thread # 0 => procs[stderr_thread].thread["STDERR"] = "done"
    /\ StopReturns(stopFrom, pendingErr, scope)
    /\ stopRan' = TRUE
    /\ stopPath' = "full"
    /\ process' = 0
    /\ UNCHANGED <<env, stdout_thread, stderr_thread, procs, starts, spawned,
                   log>>

\* if self._stderr_thread: self._stderr_thread.join(); then stop() returns
stop_join_stderr ==
    /\ pc = "join_stderr"
    /\ stderr_thread # 0 => procs[stderr_thread].thread["STDERR"] = "done"
    /\ StopReturns(stopFrom, pendingErr, scope)
    /\ stopRan' = TRUE
    /\ stopPath' = "full"
    /\ UNCHANGED <<env, handle, procs, starts, spawned, log>>

\* ----------------------------------------------------------------- start
\* start_spawn without the binary_path.exists() test of _get_binary_path
start_spawn_no_check(sc) ==
    /\ pc = "idle"
    /\ starts < startBudget
    /\ starts' = starts + 1
    /\ stopRan' = FALSE
    /\ stopPath' = "none"
    /\ ClearLog
    /\ procs' = Append(procs, NewProc)
    /\ process' = Len(procs) + 1
    /\ spawned' = Len(procs) + 1
    /\ pc' = "threads"
    /\ scope' = sc
    /\ UNCHANGED <<stdout_thread, stderr_thread, epIdx, attempt,
                   stopFrom, pendingErr, lastCall, raised>>
    /\ UNCHANGED env

\* start() up to Popen: _get_binary_path() raises FileNotFoundError when the
\* binary is absent, else the child is spawned and stored in self.process.
start_spawn(sc) ==
    /\ pc = "idle"
    /\ starts < startBudget
    /\ starts' = starts + 1
    /\ stopRan' = FALSE
    /\ stopPath' = "none"
    /\ ClearLog
    /\ IF ~binaryExists
       THEN /\ ReturnToCaller("start", "FileNotFoundError", sc)
            /\ spawned' = 0
            /\ UNCHANGED <<handle, procs>>
       ELSE /\ procs' = Append(procs, NewProc)
            /\ process' = Len(procs) + 1
            /\ spawned' = Len(procs) + 1
            /\ pc' = "threads"
            /\ scope' = sc
            /\ UNCHANGED <<stdout_thread, stderr_thread, epIdx, attempt,
                           stopFrom, pendingErr, lastCall, raised>>
    /\ UNCHANGED env

\* start() called by the caller
start ==
    /\ scope = "direct"
    /\ start_spawn("direct")

\* __enter__: self.start(); return self
enter ==
    /\ scope = "with"
    /\ start_spawn("entering")

\* start_threads with the two Thread objects made but not started
start_threads_not_started ==
    /\ pc = "threads"
    /\ stdout_thread' = process
    /\ stderr_thread' = process
    /\ pc' = "open_config"
    /\ UNCHANGED <<env, process, procs, epIdx, attempt, stopFrom, pendingErr,
                   caller, history>>

\* the two threading.Thread(...) and their start()
start_threads ==
    /\ pc = "threads"
    /\ stdout_thread' = process
    /\ stderr_thread' = process
    /\ procs' = [procs EXCEPT ![process].thread = [s \in Streams |-> "poll"]]
    /\ pc' = "open_config"
    /\ UNCHANGED <<env, process, epIdx, attempt, stopFrom, pendingErr,
                   caller, history>>

\* start_except without the self.stop() before the raise
start_except_no_stop(err) ==
    /\ ReturnToCaller("start", err, scope)
    /\ UNCHANGED <<env, handle, procs, starts, spawned, stopRan, stopPath>>

\* start() fails after the spawn: self.stop(), then raise
start_except(err) ==
    /\ stop_enter("start", err, scope)
    /\ UNCHANGED <<env, handle, procs, starts, spawned>>

\* start() returns normally
start_return ==
    /\ ReturnToCaller("start", "none", scope)
    /\ UNCHANGED <<env, handle, procs, starts, spawned, stopRan, stopPath>>

\* open(self.config_path), yaml.safe_load(f),
\* `if 'endpoints' in config and config['endpoints']:`
start_open_config ==
    /\ pc = "open_config"
    /\ UNCHANGED log
    /\ IF config.file = "missing" THEN start_except("FileNotFoundError")
       ELSE IF config.file = "malformed" THEN start_except("YAMLError")
       ELSE IF config.doc = "None" THEN start_except("TypeError")
       ELSE IF config.hasEndpoints /\ config.endpoints # <<>>
       THEN /\ pc' = "endpoints"
            /\ epIdx' = 1
            /\ UNCHANGED <<env, handle, procs, attempt, stopFrom, pendingErr,
                           caller, spawned, stopRan, stopPath>>
       ELSE start_return

\* for endpoint in config['endpoints']:
\*     if 'health' in endpoint and 'source_port' in endpoint:
\*         ... self._health_check(health_url)
start_endpoint ==
    /\ pc = "endpoints"
    /\ IF epIdx > Len(config.endpoints)
       THEN start_return /\ UNCHANGED log
       ELSE IF ~config.endpoints[epIdx].isMap
       THEN start_except("TypeError") /\ UNCHANGED log
       ELSE /\ IF Qualifies(config.endpoints[epIdx])
               THEN /\ pc' = "health_check"
                    /\ nProbes' = 0
                    /\ sleeps' = <<>>
                    /\ UNCHANGED <<epIdx, passed>>
               ELSE /\ epIdx' = epIdx + 1
                    /\ UNCHANGED <<pc, log>>
            /\ UNCHANGED <<env, handle, procs, attempt, stopFrom, pendingErr,
                           caller, spawned, stopRan, stopPath>>

\* health_check with start() leaving its loop over the endpoints after the
\* first health check that passes
health_check_break(outcome) ==
    /\ pc = "health_check"
    /\ nProbes' = nProbes + 1
    /\ IF outcome = "error"
       THEN start_except("Exception") /\ UNCHANGED <<passed, sleeps>>
       ELSE IF outcome = "ok"
       THEN /\ passed' = passed \cup {epIdx}
            /\ pc' = "endpoints"
            /\ epIdx' = Len(config.endpoints) + 1
            /\ attempt' = 0
            /\ UNCHANGED <<env, handle, procs, stopFrom, pendingErr,
                           caller, spawned, stopRan, stopPath, sleeps>>
       ELSE /\ sleeps' = Append(sleeps, backoff_delay(attempt))
            /\ UNCHANGED passed
            /\ IF attempt + 1 < Retries
               THEN /\ attempt' = attempt + 1
                    /\ UNCHANGED <<env, handle, procs, pc, epIdx, stopFrom,
                                   pendingErr, caller, spawned, stopRan,
                                   stopPath>>
               ELSE start_except("TimeoutError")

\* one round of the loop of _health_check: the probe, then either return or
\* sleep; the TimeoutError after the last round.  An exception of the probe
\* that is no RequestException leaves _health_check and is caught by start().
health_check(outcome) ==
    /\ pc = "health_check"
    /\ nProbes' = nProbes + 1
    /\ IF outcome = "error"
       THEN start_except("Exception") /\ UNCHANGED <<passed, sleeps>>
       ELSE IF outcome = "ok"
       THEN /\ passed' = passed \cup {epIdx}
            /\ pc' = "endpoints"
            /\ epIdx' = epIdx + 1
            /\ attempt' = 0
            /\ UNCHANGED <<env, handle, procs, stopFrom, pendingErr,
                           caller, spawned, stopRan, stopPath, sleeps>>
       ELSE /\ sleeps' = Append(sleeps, backoff_delay(attempt))
            /\ UNCHANGED passed
            /\ IF attempt + 1 < Retries
               THEN /\ attempt' = attempt + 1
                    /\ UNCHANGED <<env, handle, procs, pc, epIdx, stopFrom,
                                   pendingErr, caller, spawned, stopRan,
                                   stopPath>>
               ELSE start_except("TimeoutError")

Next ==
    \/ start
    \/ enter
    \/ start_threads
    \/ start_open_config
    \/ start_endpoint
    \/ \E outcome \in ProbeOutcomes : health_check(outcome)
    \/ stop
    \/ \E b \in BOOLEAN : exit(b)
    \/ stop_terminate
    \/ stop_wait
    \/ stop_kill
    \/ stop_wait_killed
    \/ stop_join_stdout
    \/ stop_join_stderr
    \/ \E c \in 1..MaxStarts : child_exit(c)
    \/ \E c \in 1..MaxStarts, s \in Streams : child_write(c, s)
    \/ \E c \in 1..MaxStarts, s \in Streams : read_stream_poll(c, s)
    \/ \E c \in 1..MaxStarts, s \in Streams : read_stream_readline(c, s)

\* One start/stop cycle per handle (the usage the with statement gives), any
\* config file.
\* The supervisor runs on its own: the provisioner is not run.
InstallerNotRun == InstallerIdle({<<"linux">>}, {"x86_64"}, {<<>>})

Init == InitWith(Configs, 1) /\ InstallerNotRun

Spec == Init /\ [][Next]_vars

\* The handle is reused: up to MaxStarts start() calls, on children that
\* write nothing, config files of at most MaxReuseEndpoints endpoints, all
\* of them with a health path and a source port.
ReuseConfigs ==
    {c \in Configs : /\ Len(c.endpoints) <= MaxReuseEndpoints
                     /\ \A i \in 1..Len(c.endpoints) : Qualifies(c.endpoints[i])}

InitReuse == InitWith(ReuseConfigs, MaxStarts) /\ InstallerNotRun

NextReuse ==
    \/ start
    \/ enter
    \/ start_threads
    \/ start_open_config
    \/ start_endpoint
    \/ \E outcome \in ProbeOutcomes : health_check(outcome)
    \/ stop
    \/ \E b \in BOOLEAN : exit(b)
    \/ stop_terminate
    \/ stop_wait
    \/ stop_kill
    \/ stop_wait_killed
    \/ stop_join_stdout
    \/ stop_join_stderr
    \/ \E c \in 1..MaxStarts : child_exit(c)
    \/ \E c \in 1..MaxStarts, s \in Streams : read_stream_poll(c, s)
    \/ \E c \in 1..MaxStarts, s \in Streams : read_stream_readline(c, s)

SpecReuse == InitReuse /\ [][NextReuse]_vars

\* ------------------------------------------------- install.py, the steps
supervisor == <<config, startBudget, handle, procs, control, caller>>
host == <<sysPlatform, machine, expected>>

\* Exceptions of subprocess.run that verify_binary_usability handles.
SmokeHandled ==
    {"CalledProcessError", "FileNotFoundError", "PermissionError",
     "TimeoutExpired"}

\* What running `binary --help` can come to when the file is there and may
\* be executed: exit code zero, a non-zero exit code, a timeout, or the
\* OSError of a file the host cannot execute (wrong architecture).
SmokeOutcomes == {"zero", "CalledProcessError", "TimeoutExpired", "OSError"}

\* The entry point calls install_binary.
main_downloader_function ==
    /\ ipc = "idle"
    /\ ipc' = "platform"
    /\ UNCHANGED <<binaryExists, host, archiveExists, archiveDigest, execBit,
                   details, pendingExc, iraised, failedAt, verified,
                   extracted, smoke, exitCode>>
    /\ UNCHANGED <<supervisor, history>>

\* install_binary up to the try block: the platform is resolved, then a
\* binary already at binary_path is removed.
install_binary ==
    /\ ipc = "platform"
    /\ LET d == get_platform_details(sysPlatform, machine)
       IN  IF d = NoDetails
           THEN /\ ipc' = "raised"
                /\ iraised' = "OSError"
                /\ failedAt' = "platform"
                /\ UNCHANGED <<binaryExists, execBit, details>>
           ELSE /\ details' = d
                /\ binaryExists' = FALSE
                /\ execBit' = FALSE
                /\ ipc' = "download"
                /\ UNCHANGED <<iraised, failedAt>>
    /\ UNCHANGED <<host, archiveExists, archiveDigest, pendingExc, verified,
                   extracted, smoke, exitCode>>
    /\ UNCHANGED <<supervisor, history>>

\* download_and_verify, the transfer: it completes ("ok", the file holds
\* content of digest d), fails before the file is opened ("refused"), or
\* breaks after it ("broken").
download_and_verify_fetch(outcome, d) ==
    /\ ipc = "download"
    /\ CASE outcome = "ok" ->
              /\ archiveExists' = TRUE
              /\ archiveDigest' = d
              /\ ipc' = "checksum"
              /\ UNCHANGED pendingExc
         [] outcome = "refused" ->
              /\ pendingExc' = "RequestException"
              /\ ipc' = "download_except"
              /\ UNCHANGED <<archiveExists, archiveDigest>>
         [] outcome = "broken" ->
              /\ archiveExists' = TRUE
              /\ pendingExc' = "RequestException"
              /\ ipc' = "download_except"
              /\ UNCHANGED archiveDigest
    /\ UNCHANGED <<binaryExists, host, execBit, details, iraised, failedAt,
                   verified, extracted, smoke, exitCode>>
    /\ UNCHANGED <<supervisor, history>>

\* download_and_verify_check that takes a missing manifest entry for a match
download_and_verify_check_skip_missing ==
    /\ ipc = "checksum"
    /\ IF expected # <<>> /\ ~checksum_matches(archiveDigest, expected)
       THEN /\ verified' = "rejected"
            /\ pendingExc' = "ValueError"
            /\ ipc' = "download_except"
       ELSE /\ verified' = "accepted"
            /\ ipc' = "extract"
            /\ UNCHANGED pendingExc
    /\ UNCHANGED <<binaryExists, host, archiveExists, archiveDigest, execBit,
                   details, iraised, failedAt, extracted, smoke, exitCode>>
    /\ UNCHANGED <<supervisor, history>>

\* download_and_verify, the verification: no entry, or a digest that is not
\* the entry, raises ValueError.
download_and_verify_check ==
    /\ ipc = "checksum"
    /\ IF expected = <<>> \/ ~checksum_matches(archiveDigest, expected)
       THEN /\ verified' = "rejected"
            /\ pendingExc' = "ValueError"
            /\ ipc' = "download_except"
       ELSE /\ verified' = "accepted"
            /\ ipc' = "extract"
            /\ UNCHANGED pendingExc
    /\ UNCHANGED <<binaryExists, host, archiveExists, archiveDigest, execBit,
                   details, iraised, failedAt, extracted, smoke, exitCode>>
    /\ UNCHANGED <<supervisor, history>>

\* download_and_verify, `except Exception`: the archive is removed and the
\* exception goes on, through install_binary's own handler, to its caller.
download_and_verify_except ==
    /\ ipc = "download_except"
    /\ archiveExists' = FALSE
    /\ iraised' = pendingExc
    /\ failedAt' = IF pendingExc = "ValueError" THEN "checksum" ELSE "download"
    /\ pendingExc' = "none"
    /\ ipc' = "raised"
    /\ UNCHANGED <<binaryExists, host, archiveDigest, execBit, details,
                   verified, extracted, smoke, exitCode>>
    /\ UNCHANGED <<supervisor, history>>

\* extract_archive, the try block: extractall() completes or raises
\* (ok = FALSE); either way it may have written the binary (wrote), with or
\* without the execute bit (mode).
extract_archive(ok, wrote, mode) ==
    /\ ipc = "extract"
    /\ extracted' = TRUE
    /\ binaryExists' = wrote
    /\ execBit' = (wrote /\ mode)
    /\ pendingExc' = IF ok THEN "none" ELSE "ExtractError"
    /\ ipc' = "extract_finally"
    /\ UNCHANGED <<host, archiveExists, archiveDigest, details, iraised,
                   failedAt, verified, smoke, exitCode>>
    /\ UNCHANGED <<supervisor, history>>

\* extract_archive_finally that removes the archive only after a success
extract_archive_finally_on_success ==
    /\ ipc = "extract_finally"
    /\ archiveExists' = (archiveExists /\ pendingExc # "none")
    /\ IF pendingExc # "none"
       THEN /\ iraised' = pendingExc
            /\ failedAt' = "extract"
            /\ ipc' = "raised"
       ELSE /\ ipc' = "chmod"
            /\ UNCHANGED <<iraised, failedAt>>
    /\ pendingExc' = "none"
    /\ UNCHANGED <<binaryExists, host, archiveDigest, execBit, details,
                   verified, extracted, smoke, exitCode>>
    /\ UNCHANGED <<supervisor, history>>

\* extract_archive, `finally`: the archive is removed, then a pending
\* exception goes on.
extract_archive_finally ==
    /\ ipc = "extract_finally"
    /\ archiveExists' = FALSE
    /\ IF pendingExc # "none"
       THEN /\ iraised' = pendingExc
            /\ failedAt' = "extract"
            /\ ipc' = "raised"
       ELSE /\ ipc' = "chmod"
            /\ UNCHANGED <<iraised, failedAt>>
    /\ pendingExc' = "none"
    /\ UNCHANGED <<binaryExists, host, archiveDigest, execBit, details,
                   verified, extracted, smoke, exitCode>>
    /\ UNCHANGED <<supervisor, history>>

\* ensure_binary_is_executable: nothing on Windows; elsewhere os.stat raises
\* when the file is not there and os.chmod may be denied.
ensure_binary_is_executable(allowed) ==
    /\ ipc = "chmod"
    /\ IF details.go_os = "Windows"
       THEN /\ ipc' = "smoke"
            /\ UNCHANGED <<execBit, iraised, failedAt>>
       ELSE IF ~binaryExists
       THEN /\ iraised' = "FileNotFoundError"
            /\ failedAt' = "chmod"
            /\ ipc' = "raised"
            /\ UNCHANGED execBit
       ELSE IF ~allowed
       THEN /\ iraised' = "PermissionError"
            /\ failedAt' = "chmod"
            /\ ipc' = "raised"
            /\ UNCHANGED execBit
       ELSE /\ execBit' = TRUE
            /\ ipc' = "smoke"
            /\ UNCHANGED <<iraised, failedAt>>
    /\ UNCHANGED <<binaryExists, host, archiveExists, archiveDigest, details,
                   pendingExc, verified, extracted, smoke, exitCode>>
    /\ UNCHANGED <<supervisor, history>>

\* verify_binary_usability: `binary --help` is run; the handled exceptions
\* remove the binary and become RuntimeError, any other goes on as it is.
verify_binary_usability(outcome) ==
    /\ ipc = "smoke"
    /\ LET result ==
               IF ~binaryExists THEN "FileNotFoundError"
               ELSE IF details.go_os # "Windows" /\ ~execBit
                    THEN "PermissionError"
               ELSE outcome
       IN  /\ smoke' = result
           /\ IF result = "zero"
              THEN /\ ipc' = "returned"
                   /\ UNCHANGED <<binaryExists, iraised, failedAt>>
              ELSE IF result \in SmokeHandled
              THEN /\ binaryExists' = FALSE
                   /\ iraised' = "RuntimeError"
                   /\ failedAt' = "smoke"
                   /\ ipc' = "raised"
              ELSE /\ iraised' = result
                   /\ failedAt' = "smoke"
                   /\ ipc' = "raised"
                   /\ UNCHANGED binaryExists
    /\ UNCHANGED <<host, archiveExists, archiveDigest, execBit, details,
                   pendingExc, verified, extracted, exitCode>>
    /\ UNCHANGED <<supervisor, history>>

\* main_downloader_function_exit that swallows the exception
main_downloader_function_exit_zero ==
    /\ ipc \in {"raised", "returned"}
    /\ exitCode' = 0
    /\ ipc' = "exited"
    /\ UNCHANGED <<binaryExists, host, archiveExists, archiveDigest, execBit,
                   details, pendingExc, iraised, failedAt, verified,
                   extracted, smoke>>
    /\ UNCHANGED <<supervisor, history>>

\* main_downloader_function, after install_binary: sys.exit(1) on an
\* exception, a normal return (exit code 0) otherwise.
main_downloader_function_exit ==
    /\ ipc \in {"raised", "returned"}
    /\ exitCode' = IF ipc = "raised" THEN 1 ELSE 0
    /\ ipc' = "exited"
    /\ UNCHANGED <<binaryExists, host, archiveExists, archiveDigest, execBit,
                   details, pendingExc, iraised, failedAt, verified,
                   extracted, smoke>>
    /\ UNCHANGED <<supervisor, history>>

NextInstall ==
    \/ main_downloader_function
    \/ install_binary
    \/ \E outcome \in {"ok", "refused", "broken"}, d \in ComputedDigests :
          download_and_verify_fetch(outcome, d)
    \/ download_and_verify_check
    \/ download_and_verify_except
    \/ \E ok \in BOOLEAN, wrote \in BOOLEAN, mode \in BOOLEAN :
          extract_archive(ok, wrote, mode)
    \/ extract_archive_finally
    \/ \E allowed \in BOOLEAN : ensure_binary_is_executable(allowed)
    \/ \E outcome \in SmokeOutcomes : verify_binary_usability(outcome)
    \/ main_downloader_function_exit

\* The provisioner runs on any host, with any manifest entry, with or
\* without a binary left from an earlier run; the supervisor is not used.
InitInstall ==
    /\ InitWith({[file |-> "missing", doc |-> "None", hasEndpoints |-> FALSE,
                  endpoints |-> <<>>]}, 0)
    /\ scope = "direct"
    /\ InstallerIdle(SysPlatforms, Machines, ManifestEntries)

SpecInstall == InitInstall /\ [][NextInstall]_vars

\* ------------------------------------------------------------ properties
\* A start() call has come back to the caller with an exception.
StartRaised == pc = "idle" /\ lastCall = "start" /\ raised # "none"

\* A start() call has come back to the caller without one.
StartReturned == pc = "idle" /\ lastCall = "start" /\ raised = "none"

\* An endpoint entry with both a `health` path and a `source_port`.
HasBoth(e) == e.isMap /\ {"health", "source_port"} \subseteq e.keys

QualifyingIdx == {i \in 1..Len(config.endpoints) : HasBoth(config.endpoints[i])}

\* C1: whenever start() raises after it spawned the child, its stop() has
\* returned and the spawned child has exited.
C1_FailedStartStopsChild ==
    (StartRaised /\ spawned # 0) => (stopRan /\ ~procs[spawned].alive)

\* start() raised after the spawn and its stop() had to terminate the child
C1_Witness ==
    StartRaised /\ spawned # 0 /\ stopPath = "full" /\ procs[spawned].term = 1

\* C2: an endpoint that never answers is probed exactly Retries times, the
\* sleeps after the probes are DelayUnits * 2^i for i = 0, 1, ... and so
\* strictly increasing, and the child is not signalled before the last probe;
\* then the child is stopped and start() raises TimeoutError.
C2_RetriesThenTimeout ==
    /\ (pc = "idle" /\ lastCall = "start" /\ nProbes > 0 /\ passed = {}
           /\ raised # "Exception")
          => raised = "TimeoutError"
    /\ (StartRaised /\ raised = "TimeoutError") =>
          /\ nProbes = Retries
          /\ Len(sleeps) = Retries
          /\ \A i \in 1..Len(sleeps) : sleeps[i] = DelayUnits * 2^(i - 1)
          /\ \A i, j \in 1..Len(sleeps) : i < j => sleeps[i] < sleeps[j]
          /\ stopRan
          /\ ~procs[spawned].alive
    /\ pc = "health_check" =>
          /\ nProbes < Retries
          /\ procs[spawned].term = 0
          /\ procs[spawned].kill = 0
    /\ (pc \in {"terminate", "wait", "kill", "wait_killed", "join_stdout",
                "join_stderr"} /\ pendingErr = "TimeoutError")
          => nProbes = Retries

\* the single qualifying endpoint of the config never answered: start()
\* raised TimeoutError after terminating the child
C2_Witness ==
    /\ StartRaised
    /\ raised = "TimeoutError"
    /\ Cardinality(QualifyingIdx) = 1
    /\ passed = {}
    /\ procs[spawned].term = 1

\* C3: when start() returns normally, every endpoint of the config that has
\* both a health path and a source port has answered a probe successfully.
C3_ReturnsAfterAllHealthy ==
    StartReturned => QualifyingIdx \subseteq passed

\* start() returned after two endpoints answered
C3_Witness ==
    StartReturned /\ Cardinality(QualifyingIdx) = 2 /\ passed = QualifyingIdx

\* C4: for a config file that parses and has no entry with both a health
\* path and a source port, start() probes nothing, sleeps nothing, returns
\* normally and leaves the child it spawned alone.
C4_NoQualifyingEndpointReady ==
    (/\ pc = "idle"
     /\ lastCall = "start"
     /\ spawned # 0
     /\ config.file = "parsed"
     /\ QualifyingIdx = {})
        => (/\ raised = "none"
            /\ nProbes = 0
            /\ sleeps = <<>>
            /\ stopPath = "none"
            /\ procs[spawned].term = 0
            /\ procs[spawned].kill = 0)

InStop ==
    pc \in {"terminate", "wait", "kill", "wait_killed", "join_stdout",
            "join_stderr"}

\* C5: a stop() on a running child calls terminate() first, calls kill()
\* only after the wait of teardown_timeout expired with the child still
\* running, never kill() before terminate(), and returns only after the
\* child has exited.
C5_TerminateThenKill ==
    /\ \A c \in 1..Len(procs) :
          /\ procs[c].kill > 0 => (procs[c].term > 0 /\ procs[c].expired)
          /\ procs[c].expired => procs[c].term > 0
    /\ (InStop /\ pc # "terminate") => procs[process].term > 0
    /\ pc \in {"join_stdout", "join_stderr"} => ~procs[process].alive
    /\ (pc = "idle" /\ stopPath = "full") => ~procs[process].alive

\* a stop() has returned after it had to kill the child
C5_Witness ==
    /\ pc = "idle"
    /\ lastCall = "stop"
    /\ stopPath = "full"
    /\ procs[process].term = 1
    /\ procs[process].kill = 1

\* A step in which the caller calls stop() (directly or by __exit__).
StopCallStep ==
    /\ pc = "idle"
    /\ starts' = starts
    /\ <<control, caller, history>>' # <<control, caller, history>>

\* C6: no child is ever sent more than one terminate() or more than one
\* kill(), and a stop() on a handle that was never started or whose child
\* has exited returns at once, raises nothing and signals nothing.
C6_StopIdempotent ==
    /\ [](\A c \in 1..Len(procs) : procs[c].term <= 1 /\ procs[c].kill <= 1)
    /\ [][(StopCallStep /\ ~Running) =>
              (/\ pc' = "idle"
               /\ procs' = procs
               /\ lastCall' = "stop"
               /\ raised' = "none")]_vars

\* a second stop() has returned at once on a child the first one terminated
C6_Witness ==
    /\ pc = "idle"
    /\ lastCall = "stop"
    /\ stopPath = "noop"
    /\ process # 0
    /\ procs[process].term = 1

\* C7: when stop() has returned on a started handle, both reader threads of
\* the handle have finished.
C7_ReadersFinishedAfterStop ==
    (pc = "idle" /\ lastCall = "stop" /\ process # 0) =>
        /\ procs[stdout_thread].thread["STDOUT"] = "done"
        /\ procs[stderr_thread].thread["STDERR"] = "done"

\* C8: once control has left the with statement no child is running.
C8_NoChildOutsideWith ==
    scope = "left" => \A c \in 1..Len(procs) : ~procs[c].alive

\* the with statement was left by __exit__, whose stop() ended the child
C8_Witness ==
    scope = "left" /\ lastCall = "stop" /\ stopPath = "full"

\* The lifecycle state of the handle.
State ==
    IF pc \in {"threads", "open_config"} THEN "Starting"
    ELSE IF pc \in {"endpoints", "health_check"} THEN "HealthChecking"
    ELSE IF InStop THEN "Stopping"
    ELSE IF process = 0 THEN "Idle"
    ELSE IF lastCall = "start" /\ raised = "none" THEN "Ready"
    ELSE "Stopped"

\* The transitions of one cycle, and the two by which start() begins another.
LifecycleEdges ==
    {<<"Idle", "Starting">>,
     <<"Starting", "HealthChecking">>, <<"Starting", "Ready">>,
     <<"Starting", "Stopping">>, <<"Starting", "Stopped">>,
     <<"HealthChecking", "Ready">>, <<"HealthChecking", "Stopping">>,
     <<"HealthChecking", "Stopped">>,
     <<"Ready", "Stopping">>, <<"Ready", "Stopped">>,
     <<"Stopping", "Stopped">>,
     <<"Stopped", "Starting">>, <<"Ready", "Starting">>}

C10_OneLiveChild ==
    pc = "idle" =>
        /\ Cardinality({c \in 1..Len(procs) : procs[c].alive}) <= 1
        /\ \A c \in 1..Len(procs) : procs[c].alive => c = process

C19_ReaderDrainsStream ==
    \A c \in 1..Len(procs) : \A s \in Streams :
        procs[c].thread[s] = "done" =>
            (~procs[c].alive /\ procs[c].pipe[s] = 0)

\* C20: while start() reads the config and probes the health endpoints,
\* both reader threads of the child have been started, and as long as the
\* child runs neither has ended.
C20_ReadersStartedBeforeConfig ==
    pc \in {"open_config", "endpoints", "health_check"} =>
        \A s \in Streams :
            /\ stdout_thread = process
            /\ stderr_thread = process
            /\ procs[process].thread[s] # "new"
            /\ procs[process].alive => procs[process].thread[s] # "done"

\* during the backoff of a health check the child has filled a pipe and
\* both readers are there to drain it
C20_Witness ==
    /\ pc = "health_check"
    /\ attempt >= 1
    /\ procs[process].alive
    /\ procs[process].pipe["STDOUT"] = PipeCapacity
    /\ \A s \in Streams : procs[process].thread[s] \in {"poll", "readline"}

\* install_binary has come back to its caller, normally or with an exception.
InstallEnded == ipc \in {"raised", "returned", "exited"}

InstallFailed == InstallEnded /\ iraised # "none"

\* The checksum verification has been reached and has come to its verdict.
VerificationDone ==
    archiveDigest # <<>> /\ ipc \notin {"download", "checksum"}

\* The OS families and architecture aliases the provisioner supports.
SupportedHost ==
    /\ sysPlatform[1] \in {"darwin", "linux", "win32"}
    /\ machine \in {"x86_64", "AMD64", "arm64", "aarch64"}

\* C11: when the digest of the downloaded archive does not match the
\* manifest entry, or the manifest has no entry, install_binary raises the
\* checksum error (ValueError), nothing is extracted, and afterwards neither
\* the archive nor a binary is on disk.
C11_ChecksumFailureLeavesNothing ==
    /\ (VerificationDone /\ (expected = <<>> \/ archiveDigest # expected))
          => verified = "rejected"
    /\ verified = "rejected" =>
          /\ ~extracted
          /\ smoke = "none"
          /\ InstallEnded =>
                (/\ iraised = "ValueError"
                 /\ ~archiveExists
                 /\ ~binaryExists)

C11_Witness ==
    /\ ipc = "raised" /\ failedAt = "checksum"
    /\ expected # <<>> /\ Lower(expected) # Lower(archiveDigest)

\* C12: every failure of the smoke test (non-zero exit, missing binary,
\* timeout, permission error, a binary the host cannot execute) deletes the
\* binary and raises the binary-unusable error (RuntimeError), and
\* install_binary returns normally only after a smoke test that exited zero.
C12_SmokeFailureRemovesBinary ==
    /\ (InstallEnded /\ smoke \notin {"none", "zero"})
          => (iraised = "RuntimeError" /\ ~binaryExists)
    /\ (InstallEnded /\ iraised = "none") => smoke = "zero"

\* C13: once install_binary has returned or raised, the archive file is
\* gone, whatever the outcome and whichever step failed.
C13_ArchiveRemoved == InstallEnded => ~archiveExists

C13_Witness ==
    /\ ipc = "raised" /\ failedAt = "extract"
    /\ archiveDigest # <<>> /\ ~archiveExists

\* C14: after a failed install_binary call there is no file at the binary
\* path, whichever of download, checksum verification, extraction, setting
\* the execute permission and smoke test failed.
C14_NoBinaryAfterFailure ==
    (InstallFailed /\ failedAt # "platform") => ~binaryExists

\* C16: the entry point exits with code 0 when the install succeeded and
\* with a non-zero code when it failed at any step; a failure never ends in
\* exit code 0.
C16_ExitCode ==
    /\ ipc # "exited" => exitCode = -1
    /\ ipc = "exited" =>
          /\ exitCode \in {0, 1}
          /\ exitCode = 0 <=> iraised = "none"
          /\ exitCode = 0 <=>
                (/\ verified = "accepted" /\ extracted /\ smoke = "zero"
                 /\ binaryExists)

C16_Witness ==
    /\ ipc = "exited" /\ exitCode = 1 /\ failedAt = "chmod"
    /\ iraised = "PermissionError"

\* C17: for a supported (OS family, architecture alias) pair
\* get_platform_details returns a descriptor with `.tar.gz` for darwin and
\* linux and `.zip` for windows, a binary name that ends in `.exe` exactly
\* on windows, and one arch tag for both aliases of an architecture; for any
\* other OS or architecture it raises and returns no descriptor.
C17_PlatformDetails ==
    ipc \notin {"idle", "platform"} =>
        IF SupportedHost
        THEN /\ failedAt # "platform"
             /\ details.archive_extension =
                   (IF sysPlatform[1] = "win32" THEN ".zip" ELSE ".tar.gz")
             /\ details.binary_name =
                   (IF sysPlatform[1] = "win32" THEN "test-server.exe"
                    ELSE "test-server")
             /\ details.go_arch =
                   (IF machine \in {"x86_64", "AMD64"} THEN "x86_64"
                    ELSE "arm64")
             /\ details.go_os =
                   (CASE sysPlatform[1] = "darwin" -> "Darwin"
                      [] sysPlatform[1] = "linux" -> "Linux"
                      [] sysPlatform[1] = "win32" -> "Windows")
        ELSE /\ details = NoDetails
             /\ iraised = "OSError" /\ failedAt = "platform"
             /\ ipc \in {"raised", "exited"}
             /\ ~archiveExists /\ archiveDigest = <<>>

C17_Witness ==
    /\ ipc = "download" /\ sysPlatform = <<"win32">> /\ machine = "AMD64"
    /\ details.archive_extension = ".zip"

\* C18 as stated: the archive is accepted exactly when its digest equals the
\* manifest entry without regard to letter case.
C18_CaseInsensitiveMatch ==
    VerificationDone =>
        (verified = "accepted"
            <=> (expected # <<>> /\ Lower(archiveDigest) = Lower(expected)))

\* C18, amended: the archive is accepted exactly when the manifest has an
\* entry and the computed lower-case hex digest is that entry character for
\* character; an entry that differs from the digest only in letter case is
\* rejected like any other mismatch, with the checksum error.
C18_ExactMatch ==
    /\ VerificationDone =>
          /\ verified \in {"accepted", "rejected"}
          /\ verified = "accepted"
                <=> (expected # <<>> /\ archiveDigest = expected)
    /\ (InstallEnded /\ verified = "rejected") => iraised = "ValueError"

C18_Witness ==
    /\ InstallEnded /\ verified = "rejected"
    /\ archiveDigest # expected /\ Lower(archiveDigest) = Lower(expected)

TypeOK ==
    /\ process \in 0..MaxStarts
    /\ pc \in {"idle", "threads", "open_config", "endpoints", "health_check",
               "terminate", "wait", "kill", "wait_killed", "join_stdout",
               "join_stderr"}
    /\ sysPlatform \in SysPlatforms
    /\ machine \in Machines
    /\ expected \in ManifestEntries
    /\ archiveExists \in BOOLEAN
    /\ archiveDigest \in {<<>>} \cup ComputedDigests
    /\ execBit \in BOOLEAN
    /\ ipc \in {"idle", "platform", "download", "checksum", "download_except",
                "extract", "extract_finally", "chmod", "smoke", "raised",
                "returned", "exited"}
    /\ verified \in {"none", "accepted", "rejected"}
    /\ extracted \in BOOLEAN
    /\ exitCode \in {-1, 0, 1}
====
